---- MODULE Spec2Model ----
(***************************************************************************)
(* sentinel2array: discovery of the bands of a multi-resolution product   *)
(* (Raster::new) and the windowed multi-band read (Raster::read_bands).    *)
(*                                                                         *)
(* Geo-transforms are north-up (no rotation terms): a PixelTransform is    *)
(* kept as its m11, m22 (pixel sizes) and m13, m23 (origin).  The products *)
(* of an inverse with a transform are rationals, kept exactly as           *)
(* <<numerator, denominator>> pairs; floating-point round-off is not       *)
(* modelled.                                                               *)
(***************************************************************************)
EXTENDS Integers, Sequences, FiniteSets, TLC

\* ------------------------------------------------------------------ bounds
MaxSubdatasets == 2
MaxNames == 2
RefWidth == 4
RefHeight == 2

\* --------------------------------------------------------------- constants
\* A band whose metadata has no BANDNAME entry.
NoName == "<none>"
NoRaster == [ok |-> FALSE]
NoResult == [kind |-> "none"]

BANDNAME_KEY == "BANDNAME"

\* ------------------------------------------------------------ the product
\* gdal's 6-value geo-transform of a north-up subdataset of pixel size m11.
GeoTransform(m11) == <<0, m11, 0, 0, 0, 0 - m11>>

\* Ground extent covered by every subdataset of a product: RefWidth x RefHeight
\* pixels of 10 m.  A subdataset of pixel size p has ceil(extent / p) pixels.
CeilDiv(a, b) == 0 - ((0 - a) \div b)

RasterSize(m11) ==
    IF m11 <= 0 THEN <<RefWidth, RefHeight>>
    ELSE <<CeilDiv(RefWidth * 10, m11), CeilDiv(RefHeight * 10, m11)>>

\* One subdataset on disk.  path: its identifier (description); tci: whether the
\* identifier contains "TCI"; fault: what fails on it ("open": Dataset::open,
\* "geo": geo_transform(), "read": the pixel read).
Subdataset(path, tci, m11, crs, bands, fault) ==
    [path |-> path, tci |-> tci, m11 |-> m11, crs |-> crs, bands |-> bands,
     fault |-> fault]

\* Value of pixel (col, row) of band `index` of the subdataset at `path`.
Pixel(path, index, col, row) == 1000 * path + 100 * index + 10 * col + row

UTM33 == "EPSG:32633"
UTM34 == "EPSG:32634"

BandLists == {<<"B2">>, <<"B4">>, <<"B4", "B2">>}

SubdatasetKinds ==
    [tci : {FALSE}, m11 : {10, 20, 60}, crs : {UTM33, UTM34},
     bands : BandLists, fault : {"none"}]
    \cup [tci : {TRUE}, m11 : {10}, crs : {UTM34},
          bands : {<<"B2">>}, fault : {"none"}]
    \cup [tci : {FALSE}, m11 : {10}, crs : {UTM33},
          bands : {<<"B2", NoName>>}, fault : {"none"}]
    \cup [tci : {FALSE}, m11 : {10}, crs : {UTM33},
          bands : {<<"B2">>}, fault : {"open", "geo"}]

\* Every product of at most MaxSubdatasets subdatasets; a subdataset's path is
\* its position in the product.
Products ==
    UNION {
        { [i \in 1..n |-> [path |-> i] @@ kinds[i]] : kinds \in [1..n -> SubdatasetKinds] }
        : n \in 0..MaxSubdatasets }

VARIABLES
    disk,        \* the product on disk: a sequence of subdatasets
    pc,          \* position of the program
    handles,     \* the dataset handles that are open
    pd_i,        \* parse_dataset: index of the next metadata entry
    subdatasets, \* parse_dataset: raster_subdataset_paths, the opened children
    sub_task,    \* Raster::new: outcome of each parallel parse_subdataset task
    bands_info,  \* Raster::new: the folded name -> BandInfo map
    new_result,  \* what Raster::new returned
    raster,      \* the Raster, once built
    args,        \* read_bands: the arguments of the call (bands, offset, window)
    task,        \* read_bands: state of each parallel per-band task
    order,       \* read_bands: the positions of the tasks in completion order
    io,          \* read_bands: datasets opened and windows read by the call so far
    results      \* what the calls of read_bands returned, in call order

vars == <<disk, pc, handles, pd_i, subdatasets, sub_task, bands_info, new_result,
          raster, args, task, order, io, results>>

newVars == <<pd_i, subdatasets, sub_task, bands_info, new_result, raster>>
readVars == <<args, task, order, io, results>>

\* ------------------------------------------------------------ error values
Err(error, band, path) == [kind |-> "Err", error |-> error, band |-> band, path |-> path]

\* ------------------------------------------------------- rasters / gdal API
\* transform_from_gdal: the affine of a 6-value geo-transform
\* (x = gt0 + col*gt1 + row*gt2, y = gt3 + col*gt4 + row*gt5), m11 = gt1.
transform_from_gdal(gt) ==
    [m11 |-> gt[2], m13 |-> gt[1], m22 |-> gt[6], m23 |-> gt[4]]

\* dataset.metadata() of the product: one entry of the default domain, then a
\* NAME and a DESC entry of the SUBDATASETS domain per child.
RECURSIVE SubdatasetEntries(_, _)
SubdatasetEntries(product, i) ==
    IF i > Len(product) THEN <<>>
    ELSE <<[domain |-> "SUBDATASETS", key |-> "SUBDATASET_NAME", value |-> i],
           [domain |-> "SUBDATASETS", key |-> "SUBDATASET_DESC", value |-> i]>>
         \o SubdatasetEntries(product, i + 1)

MetadataEntries(product) ==
    <<[domain |-> "", key |-> "PRODUCT_TYPE", value |-> 0]>>
    \o SubdatasetEntries(product, 1)

\* key.contains("NAME")
KeyContainsNAME(key) == key = "SUBDATASET_NAME"

\* ------------------------------------------------------------- discovery
BandInfo(index, path, proj, geo_transform) ==
    [index |-> index, path |-> path, proj |-> proj, geo_transform |-> geo_transform]

\* parse_subdataset, the loop over dataset.rasterbands(): the pairs emitted for
\* bands idx..n, or the error of the first band without a BANDNAME.
RECURSIVE ParseBands(_, _)
ParseBands(sd, idx) ==
    IF idx > Len(sd.bands) THEN [kind |-> "Ok", pairs |-> <<>>]
    ELSE IF sd.bands[idx] = NoName
         THEN Err("MetadataKeyNotFound", BANDNAME_KEY, sd.path)
         ELSE LET rest == ParseBands(sd, idx + 1)
                  info == BandInfo(idx, sd.path, sd.crs,
                                   transform_from_gdal(GeoTransform(sd.m11)))
              IN IF rest.kind = "Err" THEN rest
                 ELSE [kind |-> "Ok", pairs |-> <<<<sd.bands[idx], info>>>> \o rest.pairs]

parse_subdataset(sd) ==
    IF sd.fault = "geo" THEN Err("GdalError", "", sd.path)
    ELSE ParseBands(sd, 1)

\* HashMap::from_iter over the emitted pairs: a later pair replaces an earlier
\* one of the same name.
LastIndexOf(pairs, name) ==
    CHOOSE i \in 1..Len(pairs) :
        /\ pairs[i][1] = name
        /\ \A j \in (i + 1)..Len(pairs) : pairs[j][1] # name

HashMap_from_iter(pairs) ==
    [name \in {pairs[i][1] : i \in 1..Len(pairs)} |-> pairs[LastIndexOf(pairs, name)][2]]

RECURSIVE Flatten(_)
Flatten(seqs) ==
    IF seqs = <<>> THEN <<>> ELSE Head(seqs) \o Flatten(Tail(seqs))

\* The iteration orders of a HashMap's values: every permutation of its keys.
Orders(S) ==
    {f \in [1..Cardinality(S) -> S] : \A i, j \in 1..Cardinality(S) : f[i] = f[j] => i = j}

\* The comparison of the reduce, reversed.
PickCoarser(prev, next) == IF prev.m11 > next.m11 THEN prev ELSE next

\* .reduce(|prev, next| if prev.m11 < next.m11 { prev } else { next })
PickFiner(prev, next) == IF prev.m11 < next.m11 THEN prev ELSE next

RECURSIVE Reduce(_, _, _)
Reduce(acc, seq, i) ==
    IF i > Len(seq) THEN acc ELSE Reduce(PickFiner(acc, seq[i]), seq, i + 1)

highest_resolution(infos, iter) ==
    LET ts == [i \in 1..Len(iter) |-> infos[iter[i]].geo_transform]
    IN Reduce(ts[1], ts, 2)

Projs(infos) == {infos[n].proj : n \in DOMAIN infos}

\* The match accepting any non-empty set of projections.
NewOutcomeLenient(infos, iter) ==
    IF Cardinality({infos[n].proj : n \in DOMAIN infos}) >= 1
    THEN [kind |-> "Ok",
          raster |-> [ok |-> TRUE,
                      bands_info |-> infos,
                      proj |-> CHOOSE p \in {infos[n].proj : n \in DOMAIN infos} : TRUE,
                      highest_resolution_transform |->
                          infos[iter[1]].geo_transform]]
    ELSE Err("MultipleProjectionsInDataset", "", 0)

\* The match on projs.len() that ends Raster::new.
NewOutcome(infos, iter) ==
    IF Cardinality(Projs(infos)) = 1
    THEN [kind |-> "Ok",
          raster |-> [ok |-> TRUE,
                      bands_info |-> infos,
                      proj |-> CHOOSE p \in Projs(infos) : TRUE,
                      highest_resolution_transform |-> highest_resolution(infos, iter)]]
    ELSE Err("MultipleProjectionsInDataset", "", 0)

\* --------------------------------------------------- Raster::new, stepwise
NoArgs == [bands |-> <<>>, offset |-> <<0, 0>>, window |-> <<0, 0>>]

InitCommon ==
    /\ pc = "new"
    /\ handles = {}
    /\ pd_i = 1
    /\ subdatasets = <<>>
    /\ sub_task = <<>>
    /\ bands_info = <<>>
    /\ new_result = NoResult
    /\ raster = NoRaster
    /\ args = NoArgs
    /\ task = <<>>
    /\ order = <<>>
    /\ io = 0
    /\ results = <<>>

\* Raster::new returns: every local is dropped, and a dropped Dataset is closed.
ProductHandle == <<"product", 0>>
ChildHandles(children) == {<<"subdataset", j>> : j \in children}

\* Only `dataset` is closed: the children still in the Vec leak.
DroppedProductOnly(children) == {<<"product", 0>>}

\* The handles Raster::new still owns when it returns, which its locals' drops
\* close: `dataset`, and the children (a Vec<Dataset>) not yet consumed.
Dropped(children) == {ProductHandle} \cup ChildHandles(children)

NewReturns(result, infos, children) ==
    /\ new_result' = result
    /\ bands_info' = infos
    /\ raster' = IF result.kind = "Ok" THEN result.raster ELSE NoRaster
    /\ handles' = handles \ Dropped(children)
    /\ pc' = "ready"

\* let dataset = Dataset::open(&path)?
OpenProduct ==
    /\ pc = "new"
    /\ handles' = handles \cup {ProductHandle}
    /\ pc' = "parse_dataset"
    /\ UNCHANGED <<disk, newVars, readVars>>

\* parse_dataset: one turn of the loop over dataset.metadata().
ParseDatasetEntry ==
    /\ pc = "parse_dataset"
    /\ pd_i <= Len(MetadataEntries(disk))
    /\ LET e == MetadataEntries(disk)[pd_i]
       IN IF e.domain = "SUBDATASETS" /\ KeyContainsNAME(e.key)
          THEN IF disk[e.value].fault = "open"
               THEN \* Dataset::open(value)? fails: the children opened so far are dropped
                    /\ NewReturns(Err("GdalError", "", e.value), <<>>,
                                  {subdatasets[j] : j \in DOMAIN subdatasets})
                    /\ UNCHANGED <<pd_i, subdatasets, sub_task>>
               ELSE /\ subdatasets' = Append(subdatasets, e.value)
                    /\ handles' = handles \cup ChildHandles({e.value})
                    /\ pd_i' = pd_i + 1
                    /\ UNCHANGED <<pc, sub_task, bands_info, new_result, raster>>
          ELSE \* default domain: raster_metadata.insert; anything else: continue
               /\ pd_i' = pd_i + 1
               /\ UNCHANGED <<pc, handles, subdatasets, sub_task, bands_info,
                              new_result, raster>>
    /\ UNCHANGED <<disk, readVars>>

\* parse_dataset returns; the children go to the parallel iterator.
ParseDatasetDone ==
    /\ pc = "parse_dataset"
    /\ pd_i > Len(MetadataEntries(disk))
    /\ sub_task' = [k \in 1..Len(subdatasets) |-> [kind |-> "pending"]]
    /\ pc' = "par_parse"
    /\ UNCHANGED <<disk, handles, pd_i, subdatasets, bands_info, new_result, raster,
                   readVars>>

\* One parallel task of Raster::new: the TCI filter, then parse_subdataset, which
\* consumes (and so closes) the child on every path.
SubdatasetTask(k) ==
    /\ pc = "par_parse"
    /\ sub_task[k].kind = "pending"
    /\ LET sd == disk[subdatasets[k]]
       IN sub_task' = [sub_task EXCEPT ![k] =
              IF sd.tci THEN [kind |-> "filtered"] ELSE parse_subdataset(sd)]
    /\ handles' = handles \ ChildHandles({subdatasets[k]})
    /\ UNCHANGED <<disk, pc, pd_i, subdatasets, bands_info, new_result, raster, readVars>>

\* The pairs of the tasks that emitted some, in the order of the children.
RECURSIVE EmittedFrom(_, _)
EmittedFrom(tasks, k) ==
    IF k > Len(tasks) THEN <<>>
    ELSE (IF tasks[k].kind = "Ok" THEN <<tasks[k].pairs>> ELSE <<>>)
         \o EmittedFrom(tasks, k + 1)

Emitted(tasks) == Flatten(EmittedFrom(tasks, 1))

\* collect::<Result<Vec<_>>>()? and the rest of Raster::new.  With a failed task
\* the collect may cut short the tasks not yet started, and returns the error of
\* one of the failed tasks.
CollectNew ==
    /\ pc = "par_parse"
    /\ LET failed == {k \in DOMAIN sub_task : sub_task[k].kind = "Err"}
           pending == {k \in DOMAIN sub_task : sub_task[k].kind = "pending"}
       IN IF failed # {}
          THEN \E k \in failed :
                   NewReturns(sub_task[k], <<>>, {subdatasets[j] : j \in pending})
          ELSE /\ pending = {}
               /\ LET infos == HashMap_from_iter(Emitted(sub_task))
                  IN \E o \in Orders(DOMAIN infos) :
                         NewReturns(NewOutcome(infos, o), infos, {})
    /\ UNCHANGED <<disk, pd_i, subdatasets, sub_task, readVars>>

NextNew ==
    \/ OpenProduct
    \/ ParseDatasetEntry
    \/ ParseDatasetDone
    \/ \E k \in DOMAIN sub_task : SubdatasetTask(k)
    \/ CollectNew

\* ------------------------------------------------- affine maps, exactly
\* A rational <<n, d>>, d # 0.
Floor(q) == IF q[2] > 0 THEN q[1] \div q[2] ELSE (0 - q[1]) \div (0 - q[2])
Ceil(q) == 0 - Floor(<<0 - q[1], q[2]>>)
\* `as usize` of an f64: truncation toward zero, saturating at 0.
AsUsize(q) == IF Floor(q) < 0 THEN 0 ELSE Floor(q)

NoInverse == [ok |-> FALSE]

\* Matrix3::try_inverse of a north-up affine: None iff it is singular.
try_inverse(t) ==
    IF t.m11 = 0 \/ t.m22 = 0 THEN NoInverse
    ELSE [ok |-> TRUE,
          m11 |-> <<1, t.m11>>, m13 |-> <<0 - t.m13, t.m11>>,
          m22 |-> <<1, t.m22>>, m23 |-> <<0 - t.m23, t.m22>>]

\* inverse * reference: reference-grid pixel -> pixel of the band.
Compose(inv, ref) ==
    [m11 |-> <<inv.m11[1] * ref.m11, inv.m11[2]>>,
     m13 |-> <<inv.m11[1] * ref.m13 + inv.m13[1], inv.m11[2]>>,
     m22 |-> <<inv.m22[1] * ref.m22, inv.m22[2]>>,
     m23 |-> <<inv.m22[1] * ref.m23 + inv.m23[1], inv.m22[2]>>]

\* transform.transform_point(&Point2::new(x, y))
transform_point(t, x, y) ==
    <<(<<t.m11[1] * x + t.m13[1], t.m11[2]>>), (<<t.m22[1] * y + t.m23[1], t.m22[2]>>)>>

Min2(a, b) == IF a < b THEN a ELSE b
Max2(a, b) == IF a > b THEN a ELSE b
Clamp(v, lo, hi) == Max2(lo, Min2(v, hi))

\* rasters::transform_window: the image of the window's corners under t, its
\* bounding box in whole pixels (floor of the min, ceil of the max), clamped to
\* the raster.
transform_window(offset, window, t, size) ==
    LET p == transform_point(t, offset[1], offset[2])
        q == transform_point(t, offset[1] + window[1], offset[2] + window[2])
        lox == Clamp(Min2(Floor(p[1]), Floor(q[1])), 0, size[1])
        hix == Clamp(Max2(Ceil(p[1]), Ceil(q[1])), 0, size[1])
        loy == Clamp(Min2(Floor(p[2]), Floor(q[2])), 0, size[2])
        hiy == Clamp(Max2(Ceil(p[2]), Ceil(q[2])), 0, size[2])
    IN [offset |-> <<lox, loy>>, window |-> <<hix - lox, hiy - loy>>]

\* DatasetReader::read_as_array::<u16>(offset, window) on band `index` of sd.
read_as_array(sd, index, offset, window) ==
    IF sd.fault = "read" THEN Err("RastersError", "", sd.path)
    ELSE IF \/ offset[1] < 0 \/ offset[1] + window[1] > RasterSize(sd.m11)[1]
            \/ offset[2] < 0 \/ offset[2] + window[2] > RasterSize(sd.m11)[2]
         THEN Err("RastersError", "", sd.path)
         ELSE [kind |-> "Ok",
               shape |-> window,
               data |-> [i \in 0..(window[1] - 1) |-> [j \in 0..(window[2] - 1) |->
                           Pixel(sd.path, index, offset[1] + i, offset[2] + j)]]]

\* ------------------------------------------------------ Raster::read_bands
NameUniverse == {"B2", "B4", "B9"}
NameLists == UNION {[1..n -> NameUniverse] : n \in 0..MaxNames}

\* The extent of the reference grid: the raster of the band that gave the
\* reference transform.
RefExtent(r) == RasterSize(r.highest_resolution_transform.m11)

\* The windows lying within the reference extent.
Windows(r) ==
    {w \in [offset : (0..RefExtent(r)[1]) \X (0..RefExtent(r)[2]),
            window : (0..RefExtent(r)[1]) \X (0..RefExtent(r)[2])] :
        /\ w.offset[1] + w.window[1] <= RefExtent(r)[1]
        /\ w.offset[2] + w.window[2] <= RefExtent(r)[2]}

\* The positions of the request whose name the band map lacks.
Absent(r, bands) == {i \in DOMAIN bands : bands[i] \notin DOMAIN r.bands_info}

\* The error names the first requested band, not the absent one.
BandNotFoundFirst(bands, i) == Err("BandNotFound", bands[1], 0)

\* band_info: .ok_or(RasterError::BandNotFound(band.into()))
BandNotFound(bands, i) == Err("BandNotFound", bands[i], 0)

\* read_bands is entered with `a`; self.bands_info(&bands)? resolves every name
\* (pure lookups, in parallel) before anything else, and returns the error of
\* one of the absent names.
EnterReadBands(a) ==
    /\ args' = a
    /\ io' = 0
    /\ order' = <<>>
    /\ IF Absent(raster, a.bands) # {}
       THEN /\ \E i \in Absent(raster, a.bands) :
                   results' = Append(results, BandNotFound(a.bands, i))
            /\ task' = <<>>
            /\ pc' = "ready"
       ELSE /\ task' = [i \in DOMAIN a.bands |-> [kind |-> "pending"]]
            /\ pc' = "par_read"
            /\ UNCHANGED results
    /\ UNCHANGED <<disk, handles, newVars>>

\* The first call of read_bands on the Raster, with any request.
CallReadBands ==
    /\ pc = "ready"
    /\ raster.ok
    /\ results = <<>>
    /\ \E bands \in NameLists, w \in Windows(raster) :
           EnterReadBands([bands |-> bands, offset |-> w.offset, window |-> w.window])

\* A second call with the arguments of the first.
CallAgain ==
    /\ pc = "ready"
    /\ raster.ok
    /\ Len(results) = 1
    /\ EnterReadBands(args)

BandHandle(i) == <<"band", i>>

\* A per-band task starts: the transform from the reference grid to the band,
\* then band_info.dataset()? for its raster_size().
TaskOpen(i) ==
    /\ pc = "par_read"
    /\ task[i].kind = "pending"
    /\ LET band == args.bands[i]
           info == raster.bands_info[band]
           inv == try_inverse(info.geo_transform)
       IN IF ~inv.ok
          THEN /\ task' = [task EXCEPT ![i] = Err("BandTransformNotInvertible", band, 0)]
               /\ order' = Append(order, i)
               /\ UNCHANGED <<handles, io>>
          ELSE IF disk[info.path].fault = "open"
          THEN /\ task' = [task EXCEPT ![i] = Err("GdalError", "", info.path)]
               /\ order' = Append(order, i)
               /\ io' = io + 1
               /\ UNCHANGED handles
          ELSE /\ task' = [task EXCEPT ![i] =
                       [kind |-> "open",
                        transform |-> Compose(inv, raster.highest_resolution_transform)]]
               /\ handles' = handles \cup {BandHandle(i)}
               /\ io' = io + 1
               /\ UNCHANGED order
    /\ UNCHANGED <<disk, pc, newVars, args, results>>

\* The rest of the task: the corrected window (the first handle is dropped with
\* the statement), then band_info.reader()? and read_as_array; the reader is
\* dropped as the closure returns.
TaskRead(i) ==
    /\ pc = "par_read"
    /\ task[i].kind = "open"
    /\ LET info == raster.bands_info[args.bands[i]]
           sd == disk[info.path]
           cw == transform_window(args.offset, args.window, task[i].transform,
                                  RasterSize(sd.m11))
           got == read_as_array(sd, info.index, cw.offset, cw.window)
       IN task' = [task EXCEPT ![i] =
              IF got.kind = "Ok"
              THEN [kind |-> "Ok", raster |-> got, transform |-> task[i].transform]
              ELSE got]
    /\ handles' = handles \ {BandHandle(i)}
    /\ io' = io + 2
    /\ order' = Append(order, i)
    /\ UNCHANGED <<disk, pc, newVars, args, results>>

\* The results in the order in which the tasks completed.
CollectedByCompletion(tasks, completion) ==
    [i \in DOMAIN tasks |-> tasks[completion[i]]]

\* collect::<Result<Vec<_>>>(): the results in the order of the request, whatever
\* the order in which the tasks completed.
Collected(tasks, completion) == tasks

\* The closure indexing band_raster[[y, x]].
CubeValueSwapped(band_rasters, c, x, y) ==
    LET br == band_rasters[c]
        cc == transform_point(br.transform, x, y)
        ix == AsUsize(cc[1])
        iy == AsUsize(cc[2])
    IN IF iy < br.raster.shape[1] /\ ix < br.raster.shape[2]
       THEN br.raster.data[iy][ix]
       ELSE 0 - 1

\* The closure of Array3::from_shape_fn: the value of cell (c, x, y), or -1 where
\* the index lies outside band_raster (ndarray panics).
CubeValue(band_rasters, c, x, y) ==
    LET br == band_rasters[c]
        cc == transform_point(br.transform, x, y)
        ix == AsUsize(cc[1])
        iy == AsUsize(cc[2])
    IN IF ix < br.raster.shape[1] /\ iy < br.raster.shape[2]
       THEN br.raster.data[ix][iy]
       ELSE 0 - 1

\* The cube allocated with its two window axes exchanged.
from_shape_fn_transposed(n, w, h, band_rasters) ==
    LET data == [c \in 1..n |-> [x \in 0..(h - 1) |-> [y \in 0..(w - 1) |->
                    CubeValue(band_rasters, c, x, y)]]]
    IN IF \E c \in 1..n, x \in 0..(h - 1), y \in 0..(w - 1) : data[c][x][y] < 0
       THEN [kind |-> "Panic"]
       ELSE [kind |-> "Ok", shape |-> <<n, h, w>>, data |-> data]

\* Array3::from_shape_fn((bands.len(), window.0, window.1), ...)
from_shape_fn(n, w, h, band_rasters) ==
    LET data == [c \in 1..n |-> [x \in 0..(w - 1) |-> [y \in 0..(h - 1) |->
                    CubeValue(band_rasters, c, x, y)]]]
    IN IF \E c \in 1..n, x \in 0..(w - 1), y \in 0..(h - 1) : data[c][x][y] < 0
       THEN [kind |-> "Panic"]
       ELSE [kind |-> "Ok", shape |-> <<n, w, h>>, data |-> data]

\* The collect ends the parallel region (with the error of one of the failed
\* tasks, the tasks not yet started being cut short), and the cube is assembled.
Assemble ==
    /\ pc = "par_read"
    /\ LET failed == {k \in DOMAIN task : task[k].kind = "Err"}
           running == {k \in DOMAIN task : task[k].kind = "open"}
           pending == {k \in DOMAIN task : task[k].kind = "pending"}
       IN /\ running = {}
          /\ IF failed # {}
             THEN \E k \in failed : results' = Append(results, task[k])
             ELSE /\ pending = {}
                  /\ results' = Append(results,
                         from_shape_fn(Len(args.bands), args.window[1], args.window[2],
                                       Collected(task, order)))
    /\ pc' = "ready"
    /\ UNCHANGED <<disk, handles, newVars, args, task, order, io>>

NextRead ==
    \/ CallReadBands
    \/ CallAgain
    \/ \E i \in DOMAIN task : TaskOpen(i)
    \/ \E i \in DOMAIN task : TaskRead(i)
    \/ Assemble

\* ------------------------------------------------------------- fixtures
Fixtures == {
    \* two 10 m bands, a 20 m band and the true-colour composite
    <<Subdataset(1, FALSE, 10, UTM33, <<"B3", "B2">>, "none"),
      Subdataset(2, FALSE, 20, UTM33, <<"B4">>, "none"),
      Subdataset(3, TRUE, 10, UTM34, <<"B4">>, "none")>>,
    \* a single 20 m subdataset
    <<Subdataset(1, FALSE, 20, UTM33, <<"B2", "B4">>, "none")>>,
    \* a 20 m and a 60 m subdataset
    <<Subdataset(1, FALSE, 20, UTM33, <<"B2">>, "none"),
      Subdataset(2, FALSE, 60, UTM33, <<"B4">>, "none")>>,
    \* a singular geo-transform and a subdataset whose pixels cannot be read
    <<Subdataset(1, FALSE, 0, UTM33, <<"B2">>, "none"),
      Subdataset(2, FALSE, 20, UTM33, <<"B4">>, "read")>>,
    \* two projections
    <<Subdataset(1, FALSE, 10, UTM33, <<"B2">>, "none"),
      Subdataset(2, FALSE, 20, UTM34, <<"B4">>, "none")>>,
    \* a band without BANDNAME
    <<Subdataset(1, FALSE, 10, UTM33, <<"B2", NoName>>, "none"),
      Subdataset(2, FALSE, 20, UTM33, <<"B4">>, "none")>>,
    \* a child that cannot be opened, after one that can
    <<Subdataset(1, FALSE, 10, UTM33, <<"B2">>, "none"),
      Subdataset(2, FALSE, 20, UTM33, <<"B4">>, "open")>> }

Init == disk \in Fixtures /\ InitCommon

Next == NextNew \/ NextRead

Spec == Init /\ [][Next]_vars

InitNew == disk \in Products /\ InitCommon

SpecNew == InitNew /\ [][NextNew]_vars

\* ------------------------------------------- components/band.rs: Bands
\* `m11 as u8`: truncation, saturating at 0 and 255.
resolution(info) == Clamp(info.geo_transform.m11, 0, 255)

\* Bands::insert: an occupied entry of strictly smaller resolution() is kept,
\* anything else is replaced by the incoming band.
Bands_insert(bands, band_name, band_info) ==
    IF band_name \in DOMAIN bands /\ resolution(bands[band_name]) < resolution(band_info)
    THEN bands
    ELSE [n \in DOMAIN bands \cup {band_name} |->
             IF n = band_name THEN band_info ELSE bands[n]]

\* FromIterator for Bands: the fold of insert over the pairs.
RECURSIVE Bands_fold(_, _, _)
Bands_fold(bands, pairs, i) ==
    IF i > Len(pairs) THEN bands
    ELSE Bands_fold(Bands_insert(bands, pairs[i][1], pairs[i][2]), pairs, i + 1)

Bands_from_iter(pairs) == Bands_fold(<<>>, pairs, 1)

\* ================================================================ claims
\* The subdatasets, TCI ones apart, that hold a band called `name`.
Occurrences(name) ==
    {i \in DOMAIN disk :
        /\ ~disk[i].tci
        /\ \E b \in DOMAIN disk[i].bands : disk[i].bands[b] = name}

Finest(infos, name) ==
    \A i \in Occurrences(name) : infos[name].geo_transform.m11 <= disk[i].m11

\* C1: after Raster::new succeeds, the BandInfo retained for every name of the
\* band map is the occurrence of smallest m11 among the non-TCI subdatasets
\* holding that name, whatever the order of enumeration.
C1_RetainedIsFinest ==
    new_result.kind = "Ok" =>
        \A name \in DOMAIN raster.bands_info : Finest(raster.bands_info, name)

\* The fold of components/band.rs over the same pairs does retain the finest
\* occurrence (for pixel sizes that are whole numbers below 256).
BandsFoldRetainsFinest ==
    (pc = "par_parse" /\ \A k \in DOMAIN sub_task : sub_task[k].kind \in {"Ok", "filtered"})
        => LET bands == Bands_from_iter(Emitted(sub_task))
           IN \A name \in DOMAIN bands : Finest(bands, name)

M11s(infos) == {infos[n].geo_transform.m11 : n \in DOMAIN infos}

\* C2: after Raster::new succeeds, the m11 of the cached reference transform is
\* the minimum m11 over the retained bands, for every iteration order of the map.
C2_ReferenceIsFinest ==
    new_result.kind = "Ok" =>
        /\ raster.highest_resolution_transform.m11 \in M11s(raster.bands_info)
        /\ \A m \in M11s(raster.bands_info) : raster.highest_resolution_transform.m11 <= m

\* Raster::new succeeded and retained bands of different pixel sizes.
C2_Witness ==
    /\ new_result.kind = "Ok"
    /\ Cardinality(M11s(raster.bands_info)) >= 2

\* Raster::new got as far as folding the band map (no I/O or metadata error).
Folded ==
    /\ pc = "ready"
    /\ ~(new_result.kind = "Err" /\ new_result.error \in {"GdalError", "MetadataKeyNotFound"})

\* C3: Raster::new succeeds only when the retained bands have exactly one CRS,
\* which is then Raster.proj and the crs of every retained band; with any other
\* number of CRS strings (several, or no band at all) it fails with
\* MultipleProjectionsInDataset and returns no Raster.
C3_SingleProjection ==
    /\ new_result.kind = "Ok" =>
           /\ raster.ok
           /\ Cardinality(Projs(raster.bands_info)) = 1
           /\ \A n \in DOMAIN raster.bands_info : raster.bands_info[n].proj = raster.proj
    /\ (Folded /\ Cardinality(Projs(bands_info)) # 1) =>
           /\ new_result.kind = "Err"
           /\ new_result.error = "MultipleProjectionsInDataset"
           /\ ~raster.ok

\* Raster::new folded bands of two projections and failed.
C3_Witness ==
    /\ Folded
    /\ Cardinality(Projs(bands_info)) = 2
    /\ new_result.kind = "Err"

\* A call of read_bands has been made on the Raster.
Called == raster.ok /\ (results # <<>> \/ pc = "par_read")
\* The latest call has returned.
Returned == raster.ok /\ pc = "ready" /\ results # <<>>
Last == results[Len(results)]

\* C4: when a requested name is absent from the band map, read_bands fails with
\* BandNotFound carrying an absent name, before any I/O: no dataset is opened
\* and no window read for any band of the request.
C4_BandNotFoundBeforeIO ==
    (Called /\ Absent(raster, args.bands) # {}) =>
        /\ pc = "ready"
        /\ Last.kind = "Err"
        /\ Last.error = "BandNotFound"
        /\ Last.band \in {args.bands[i] : i \in Absent(raster, args.bands)}
        /\ io = 0
        /\ handles = {}

\* A request naming a known band first and an absent one after it has returned.
C4_Witness ==
    /\ Returned
    /\ Len(args.bands) >= 2
    /\ args.bands[1] \in DOMAIN raster.bands_info
    /\ Absent(raster, args.bands) # {}

ExactShape ==
    /\ Last.kind = "Ok"
    /\ Last.shape = <<Len(args.bands), args.window[1], args.window[2]>>
    /\ DOMAIN Last.data = 1..Len(args.bands)
    /\ \A c \in DOMAIN Last.data :
           /\ DOMAIN Last.data[c] = 0..(args.window[1] - 1)
           /\ \A x \in DOMAIN Last.data[c] :
                  DOMAIN Last.data[c][x] = 0..(args.window[2] - 1)

Readable ==
    /\ \A i \in DOMAIN disk : disk[i].m11 # 0
    /\ \A c \in DOMAIN args.bands :
           disk[raster.bands_info[args.bands[c]].path].fault # "read"

C6_NativeBandIsCopied ==
    (Returned /\ Last.kind = "Ok") =>
        \A c \in DOMAIN args.bands :
            LET info == raster.bands_info[args.bands[c]]
            IN info.geo_transform = raster.highest_resolution_transform =>
                   \A x \in 0..(args.window[1] - 1), y \in 0..(args.window[2] - 1) :
                       Last.data[c][x][y] =
                           Pixel(info.path, info.index,
                                 args.offset[1] + x, args.offset[2] + y)

\* A band at the reference resolution was read over a 2 x 2 window off the origin.
C6_Witness ==
    /\ Returned
    /\ Last.kind = "Ok"
    /\ args.offset[1] >= 1
    /\ args.window = <<2, 2>>
    /\ \E c \in DOMAIN args.bands :
           raster.bands_info[args.bands[c]].geo_transform
               = raster.highest_resolution_transform

\* What one band alone gives for the window of the request: its raster read at
\* the corrected window, resampled onto the reference grid.
PlaneOf(name) ==
    LET info == raster.bands_info[name]
        sd == disk[info.path]
        t == Compose(try_inverse(info.geo_transform), raster.highest_resolution_transform)
        cw == transform_window(args.offset, args.window, t, RasterSize(sd.m11))
        got == read_as_array(sd, info.index, cw.offset, cw.window)
    IN [x \in 0..(args.window[1] - 1) |-> [y \in 0..(args.window[2] - 1) |->
           CubeValue(<<[raster |-> got, transform |-> t]>>, 1, x, y)]]

\* C7: under every interleaving and completion order of the per-band tasks,
\* plane c of the cube is built from the raster and transform of the band
\* names[c]; a name requested twice gives two identical planes.
C7_PlaneOfItsBand ==
    (Returned /\ Last.kind = "Ok") =>
        /\ \A c \in DOMAIN args.bands : Last.data[c] = PlaneOf(args.bands[c])
        /\ \A c, d \in DOMAIN args.bands :
               args.bands[c] = args.bands[d] => Last.data[c] = Last.data[d]

\* Two different bands were read over a non-empty window, and the task of the
\* second position completed before the task of the first.
C7_Witness ==
    /\ Returned
    /\ Last.kind = "Ok"
    /\ Len(args.bands) = 2
    /\ args.bands[1] # args.bands[2]
    /\ args.window[1] >= 1 /\ args.window[2] >= 1
    /\ order = <<2, 1>>

\* C8 as claimed: two successive calls with identical arguments return the same
\* result.
C8_SameResult ==
    Len(results) = 2 => results[1] = results[2]

\* The error of the task of band `name`, if it fails.
TaskErrors(name) ==
    LET info == raster.bands_info[name]
        sd == disk[info.path]
    IN IF ~try_inverse(info.geo_transform).ok
       THEN {Err("BandTransformNotInvertible", name, 0)}
       ELSE IF sd.fault = "read" THEN {Err("RastersError", "", sd.path)}
       ELSE {}

\* The errors a request can end with: those of its absent names, else those of
\* its failing tasks.
PossibleErrors ==
    IF Absent(raster, args.bands) # {}
    THEN {BandNotFound(args.bands, i) : i \in Absent(raster, args.bands)}
    ELSE UNION {TaskErrors(args.bands[c]) : c \in DOMAIN args.bands}

\* C8: two successive calls with identical arguments on the same Raster and
\* disk either both succeed, with identical cubes, or both fail, each with the
\* error of one of the failing lookups or tasks of the request: the two results
\* are the same unless several of them fail with different errors.
C8_SameOutcome ==
    Len(results) = 2 =>
        IF PossibleErrors = {}
        THEN results[1].kind = "Ok" /\ results[1] = results[2]
        ELSE {results[1], results[2]} \subseteq PossibleErrors

\* Two successive reads of two different bands over a non-empty window succeeded.
C8_Witness ==
    /\ Len(results) = 2
    /\ results[1].kind = "Ok"
    /\ results[2].kind = "Ok"
    /\ Len(args.bands) = 2
    /\ args.bands[1] # args.bands[2]
    /\ args.window[1] >= 1 /\ args.window[2] >= 1

\* C9: when Raster::new or read_bands has returned, on success or on any
\* failure, every dataset handle opened on the way is closed.
C9_HandlesClosed ==
    pc = "ready" => handles = {}

\* Raster::new failed on a child that could not be opened, after it had opened
\* an earlier child.
C9_Witness ==
    /\ pc = "ready"
    /\ new_result.kind = "Err"
    /\ new_result.error = "GdalError"
    /\ new_result.path = 2
    /\ pd_i > 2

\* C10: for a requested band that shares the reference origin and is coarser
\* than the reference grid by a whole factor k, the output at (x, y) is the
\* band's pixel (floor((offset.x + x) / k), floor((offset.y + y) / k)), for
\* every offset, multiple of k or not.
C10_CoarserBandRegistered ==
    (Returned /\ Last.kind = "Ok") =>
        \A c \in DOMAIN args.bands :
            LET info == raster.bands_info[args.bands[c]]
                ref == raster.highest_resolution_transform
                k == info.geo_transform.m11 \div ref.m11
            IN (/\ ref.m11 > 0
                /\ info.geo_transform.m11 = k * ref.m11
                /\ info.geo_transform.m22 = k * ref.m22
                /\ info.geo_transform.m13 = ref.m13
                /\ info.geo_transform.m23 = ref.m23
                /\ k > 1) =>
                   \A x \in 0..(args.window[1] - 1), y \in 0..(args.window[2] - 1) :
                       Last.data[c][x][y] =
                           Pixel(info.path, info.index,
                                 (args.offset[1] + x) \div k, (args.offset[2] + y) \div k)

====
